---- MODULE Spec2Model ----
(***************************************************************************)
(* Model of app.py: the AutoDebugger local dashboard server.               *)
(*                                                                         *)
(* State: the module-level dict `stats`, the stats file web/stats.json,    *)
(* the temp files left in the working directory, and (for the threaded     *)
(* server) each worker thread's position inside its handler.               *)
(*                                                                         *)
(* Abstractions, all stated here once:                                     *)
(*  - success_rate is a Python float; it is modelled as the exact          *)
(*    rational <<n, d>> in lowest terms with d > 0, so that equality       *)
(*    of two rates is equality of the quotients the code computes.         *)
(*  - a JSON value of a request body is [num |-> TRUE, v |-> n] for        *)
(*    an integer n and [num |-> FALSE, v |-> 0] for a value that           *)
(*    `+=` cannot add to a number (a string, a list, null).                *)
(*  - writes to the stats file succeed (no disk failure is modelled).      *)
(*  - the stats file found at start-up is absent, unparseable, or a        *)
(*    record this program wrote earlier.                                   *)
(***************************************************************************)
EXTENDS Integers, Sequences

\* ------------------------------------------------------------------ bounds
MaxCount == 2      \* a request is taken only while it leaves counters in 0 .. MaxCount
MaxUnsaved == 1    \* merges in a row that raise after changing `stats`
MaxTime == 2       \* int(time.time()) is drawn from 1 .. MaxTime
NumThreads == 2    \* worker threads of the threaded server

\* ------------------------------------------------------------ value helpers
Abs(x) == IF x < 0 THEN -x ELSE x

RECURSIVE GCD(_, _)
GCD(a, b) == IF b = 0 THEN a ELSE GCD(b, a % b)

\* the rational n/d (d > 0) in lowest terms
Reduce(n, d) ==
    LET g == GCD(Abs(n), d)
    IN  <<n \div g, d \div g>>

\* (issues_resolved / tasks_executed) * 100, for tasks_executed > 0
Ratio(issues, tasks) == Reduce(100 * issues, tasks)

\* the integer 0 stored in success_rate by the initial and the reset dict
RateZero == <<0, 1>>

\* the four keys of the stats dict, in the dict's insertion order
Keys == <<"tasks_executed", "decisions_made", "success_rate", "issues_resolved">>

Counters == {"tasks_executed", "decisions_made", "issues_resolved"}

\* the dict literal {"tasks_executed": 0, "decisions_made": 0, "success_rate": 0, "issues_resolved": 0}
ZeroStats ==
    [tasks_executed |-> 0, decisions_made |-> 0,
     success_rate |-> RateZero, issues_resolved |-> 0]

\* `stats[key] = v` in place of `stats[key] += v`
AddDelta_Assign(key, cur, v) ==
    IF key = "success_rate" THEN <<v, 1>> ELSE v

\* stats[key] + v, the right-hand side of `stats[key] += v` for a number v
AddDelta(key, cur, v) ==
    IF key = "success_rate" THEN <<cur[1] + v * cur[2], cur[2]>> ELSE cur + v

\* "Recalculate success rate": lines 269-270 of update_stats
Recalc(s) ==
    IF s.tasks_executed > 0
    THEN [s EXCEPT !.success_rate = Ratio(s.issues_resolved, s.tasks_executed)]
    ELSE s

\* the loop `for key in stats: if key in data: stats[key] += data.get(key, 0)`
\* started at the i-th key; ok is FALSE when `+=` raised TypeError, and s then
\* holds what the loop had already stored
RECURSIVE MergeFrom(_, _, _)
MergeFrom(i, s, data) ==
    IF i > Len(Keys) THEN [s |-> s, ok |-> TRUE]
    ELSE LET key == Keys[i]
         IN  IF key \in DOMAIN data
             THEN IF data[key].num
                  THEN MergeFrom(i + 1,
                                 [s EXCEPT ![key] = AddDelta(key, s[key], data[key].v)],
                                 data)
                  ELSE [s |-> s, ok |-> FALSE]
             ELSE MergeFrom(i + 1, s, data)

\* ------------------------------------------------------------------- state
VARIABLES
    stats,         \* the module global `stats`
    stats_file,    \* web/stats.json: [kind: absent | corrupt | json, rec]
    temp_files,    \* the t for which temp_error_<t>.log exists
    time_defined,  \* whether the module global `time` is bound (line 323 ran)
    last,          \* the request handled last and its response
    pre,           \* `stats` when that request arrived
    merged,        \* per counter, the deltas merged since the last reset
    tracking,      \* `merged` is being kept: see MergedAfter
    mutated,       \* a mutating request has been handled since start-up
    unsaved,       \* merges that changed `stats` and raised, since the last save
    req,           \* threaded server: the request of each worker thread
    pc,            \* ... its position in the handler
    idx,           \* ... the index in Keys of the key its loop is at
    tmp,           \* ... the value its `+=` has loaded and not yet stored
    ref,           \* ... the generation of the dict that value was loaded from
    gen            \* how often `stats` has been rebound to a new dict

thread_vars == <<req, pc, idx, tmp, ref, gen>>
vars == <<stats, stats_file, temp_files, time_defined, last, pre, merged,
          tracking, mutated, unsaved, req, pc, idx, tmp, ref, gen>>

Times == 1 .. MaxTime
Threads == 1 .. NumThreads

\* ------------------------------------------------------------------ inputs
\* the values tried for a key of a request body: the number 1, and a value
\* that is no number
JsonValues == {[num |-> TRUE, v |-> 1], [num |-> FALSE, v |-> 0]}

\* JSON objects over the keys of the record (other keys are never read)
Deltas == UNION {[ks -> JsonValues] : ks \in SUBSET {Keys[i] : i \in 1 .. Len(Keys)}}

\* request.json: a JSON object, the JSON value null, or a body that is not JSON
BodyKinds == {"object", "null", "nonjson"}

\* what subprocess.run does: raise FileNotFoundError, raise TimeoutExpired, or
\* return with a non-zero code, or with code 0 and as stdout a JSON object, a
\* JSON value that is no object, or text that is not JSON
Outcomes == {"spawn_error", "timeout", "nonzero", "json_object", "json_other", "text"}

\* records web/stats.json may hold at start-up: ones save_stats has written
SavedRecords ==
    {ZeroStats,
     [tasks_executed |-> 2, decisions_made |-> 0,
      success_rate |-> Ratio(1, 2), issues_resolved |-> 1]}

\* ------------------------------------------------------------- state bounds
RateBases ==
    {RateZero} \cup {Ratio(i, t) : i \in 0 .. MaxCount, t \in 1 .. MaxCount}

RateInRange(r) ==
    \E b \in RateBases :
        Abs(r[1] * b[2] - b[1] * r[2]) <= r[2] * b[2]

InRange(s) ==
    /\ \A k \in Counters : s[k] \in 0 .. MaxCount
    /\ RateInRange(s.success_rate)

\* ---------------------------------------------------------------- responses
\* a jsonify(...) response: status code, the body's "success" field ("absent"
\* when the body has none), the body's "error" field ("" when it has none),
\* and which jsonify call built it
Json(status, success, error, body) ==
    [status |-> status, success |-> success, error |-> error, body |-> body,
     json |-> TRUE]

\* the handler raised: Flask answers with its own HTML error page
Raised(status) ==
    [status |-> status, success |-> "absent", error |-> "", body |-> "html_error",
     json |-> FALSE]

\* `except Exception as e` of diagnose (145-151) and autonomous (243-249)
EndpointError == Json(500, "false", "str(e)", "exception")

\* `except Exception as agent_error` of diagnose (127-143)
Fallback == Json(200, "true", "", "fallback")

NoRequest ==
    [op |-> "none", resp |-> Raised(0), valid |-> FALSE, real |-> FALSE,
     outcome |-> "none", temp |-> 0]

Request(op, resp, valid, real, outcome, temp) ==
    [op |-> op, resp |-> resp, valid |-> valid, real |-> real,
     outcome |-> outcome, temp |-> temp]

ZeroMerged == [k \in Counters |-> 0]

\* ----------------------------------------------------------------- start-up
\* lines 15-29: the dict literal, then json.load of web/stats.json if it exists
LoadStats(file) == IF file.kind = "json" THEN file.rec ELSE ZeroStats

ThreadsIdle ==
    /\ req = [t \in Threads |-> [op |-> "none", data |-> << >>, real_ok |-> FALSE]]
    /\ pc = [t \in Threads |-> "done"]
    /\ idx = [t \in Threads |-> 0]
    /\ tmp = [t \in Threads |-> 0]
    /\ ref = [t \in Threads |-> 0]
    /\ gen = 0

Init ==
    /\ stats_file \in
          {[kind |-> "absent", rec |-> ZeroStats], [kind |-> "corrupt", rec |-> ZeroStats]}
              \cup {[kind |-> "json", rec |-> r] : r \in SavedRecords}
    /\ stats = LoadStats(stats_file)
    /\ temp_files = {}
    /\ time_defined \in BOOLEAN
    /\ last = NoRequest
    /\ pre = stats
    /\ merged = ZeroMerged
    /\ tracking = (stats = ZeroStats)
    /\ mutated = FALSE
    /\ unsaved = 0
    /\ ThreadsIdle

\* ------------------------------------------------------------- StatsStore
\* save_stats (275-278): json.dump(stats) over the whole file
save_stats(s) == [kind |-> "json", rec |-> s]

\* the keys whose `+=` the merge loop executed: those before the first value
\* that is not a number
RECURSIVE Reached(_, _)
Reached(i, data) ==
    IF i > Len(Keys) THEN {}
    ELSE IF Keys[i] \in DOMAIN data /\ ~data[Keys[i]].num THEN {}
         ELSE (IF Keys[i] \in DOMAIN data THEN {Keys[i]} ELSE {}) \cup Reached(i + 1, data)

\* the history variable `merged` after a request body `data` was merged
MergedAfter(data) ==
    [k \in Counters |->
        IF k \in Reached(1, data) THEN merged[k] + data[k].v ELSE merged[k]]

\* what one request does to the history variables
Handled(request, before, mutating) ==
    /\ last' = request
    /\ pre' = before
    /\ mutated' = (mutated \/ mutating)

\* a request that is no Merge changed a counter: `merged` is dropped until
\* the next reset
StopTracking ==
    /\ tracking' = FALSE
    /\ merged' = ZeroMerged

\* ------------------------------------------------------------ GET /api/stats
get_stats ==
    /\ Handled(Request("stats", Json(200, "absent", "", "stats"), TRUE, FALSE, "none", 0),
               stats, FALSE)
    /\ UNCHANGED <<stats, stats_file, temp_files, time_defined, merged, tracking, unsaved>>
    /\ UNCHANGED thread_vars

\* ---------------------------------------------------- POST /api/stats/update
\* update_stats (258-273) has no try/except: request.json raising (a body that
\* is not JSON), `key in data` on None and `+=` on a non-number all leave the
\* handler as exceptions, the last one after part of the loop has run
update_stats ==
    \E body \in BodyKinds :
      \E data \in IF body = "object" THEN Deltas ELSE {<< >>} :
        /\ LET r == IF body = "object" THEN MergeFrom(1, stats, data)
                    ELSE [s |-> stats, ok |-> FALSE]
               after == IF r.ok THEN Recalc(r.s) ELSE r.s
           IN  /\ InRange(after)
               /\ r.ok \/ after = stats \/ unsaved < MaxUnsaved
               /\ stats' = after
               /\ stats_file' = IF r.ok THEN save_stats(after) ELSE stats_file
               /\ unsaved' = IF r.ok THEN 0 ELSE IF after = stats THEN unsaved
                                                 ELSE unsaved + 1
               /\ Handled(Request("update",
                                  IF r.ok THEN Json(200, "true", "", "stats")
                                  ELSE Raised(IF body = "nonjson" THEN 400 ELSE 500),
                                  body = "object", FALSE, "none", 0),
                          stats, r.ok \/ after # stats)
               /\ IF tracking /\ body = "object"
                  THEN merged' = MergedAfter(data)
                  ELSE merged' = merged
        /\ UNCHANGED <<temp_files, time_defined, tracking>>
        /\ UNCHANGED thread_vars

\* ----------------------------------------------------------- POST /api/reset
reset_stats ==
    /\ stats' = ZeroStats
    /\ stats_file' = save_stats(ZeroStats)
    /\ Handled(Request("reset", Json(200, "true", "", "stats"), TRUE, FALSE, "none", 0),
               stats, TRUE)
    /\ merged' = ZeroMerged
    /\ tracking' = TRUE
    /\ unsaved' = 0
    /\ UNCHANGED <<temp_files, time_defined>>
    /\ UNCHANGED thread_vars

\* ---------------------------------------------------------- GET /api/status
\* status (295-320) reads the four keys of `stats`
status ==
    /\ Handled(Request("status", Json(200, "true", "", "status"), TRUE, FALSE, "none", 0),
               stats, FALSE)
    /\ UNCHANGED <<stats, stats_file, temp_files, time_defined, merged, tracking, unsaved>>
    /\ UNCHANGED thread_vars

\* ------------------------------------------------------ POST /api/autonomous
\* line 210 moved out of the `try` around json.loads: counted for any stdout
AutonomousStats_Always(s, demo, outcome) ==
    [s EXCEPT !.tasks_executed = @ + 1,
              !.issues_resolved = IF ~demo /\ outcome \in {"json_object", "json_other", "text"}
                                  THEN @ + 1 ELSE @]

\* the counters after a request that passed validation: line 169, and line 210
\* once the command returned 0 and json.loads accepted its stdout
AutonomousStats(s, demo, outcome) ==
    [s EXCEPT !.tasks_executed = @ + 1,
              !.issues_resolved = IF ~demo /\ outcome \in {"json_object", "json_other"}
                                  THEN @ + 1 ELSE @]

\* the response of a request that passed validation (172-249)
AutonomousResponse(demo, outcome) ==
    IF demo THEN Json(200, "true", "", "demo")
    ELSE CASE outcome = "json_object" -> Json(200, "true", "", "autonomous_result")
           [] outcome = "text" -> Json(200, "true", "", "text")
           [] outcome = "nonzero" -> Json(500, "false", "result.stderr", "cli_failed")
           [] outcome = "timeout" ->
                  Json(500, "false", "Autonomous loop timed out (took too long)", "timeout")
           \* FileNotFoundError from subprocess.run, and TypeError from
           \* **autonomous_result on a JSON value that is no object
           [] OTHER -> EndpointError

autonomous ==
    \E body \in BodyKinds, url \in {"", "https://app"}, demo \in BOOLEAN :
      \E outcome \in IF body = "object" /\ url # "" /\ ~demo THEN Outcomes ELSE {"text"} :
        /\ IF body # "object"
           THEN \* request.json raised, or data.get on None raised
                /\ url = "" /\ demo /\ outcome = "text"
                /\ Handled(Request("autonomous", EndpointError, FALSE, FALSE, "none", 0),
                           stats, FALSE)
                /\ UNCHANGED <<stats, stats_file, merged, tracking, unsaved>>
           ELSE IF url = ""
           THEN /\ demo /\ outcome = "text"
                /\ Handled(Request("autonomous",
                                   Json(400, "false", "Deployment URL is required",
                                        "validation"),
                                   FALSE, FALSE, "none", 0),
                           stats, FALSE)
                /\ UNCHANGED <<stats, stats_file, merged, tracking, unsaved>>
           ELSE LET after == AutonomousStats(stats, demo, outcome)
                IN  /\ InRange(after)
                    /\ stats' = after
                    /\ stats_file' = save_stats(after)
                    /\ Handled(Request("autonomous", AutonomousResponse(demo, outcome),
                                       TRUE, ~demo, IF demo THEN "none" ELSE outcome, 0),
                               stats, TRUE)
                    /\ StopTracking
                    /\ unsaved' = 0
        /\ UNCHANGED <<temp_files, time_defined>>
        /\ UNCHANGED thread_vars

\* -------------------------------------------------------- POST /api/diagnose
\* whether lines 90-92 (`if os.path.exists(temp_file): os.remove(temp_file)`)
\* are reached: only when f.write and subprocess.run both returned
CleanUpReached(source, outcome) ==
    source = "text" /\ outcome \notin {"spawn_error", "timeout"}

\* the temp files after the real-mode block (73-92) used the name t
TempFilesAfter(files, t, source, outcome) ==
    IF CleanUpReached(source, outcome) THEN files \ {t} ELSE files \cup {t}

\* the response of the real-mode block (73-143), `time` being bound
RealDiagnosis(source, outcome) ==
    IF source # "text" THEN Fallback      \* f.write(source) raised TypeError
    ELSE CASE outcome = "json_object" -> Json(200, "true", "", "agent_result")
           [] outcome = "text" -> Json(200, "true", "", "text")
           [] outcome = "nonzero" -> Json(500, "false", "CLI failed: result.stderr",
                                          "cli_failed")
           \* TimeoutExpired, FileNotFoundError, and TypeError from **agent_result
           [] OTHER -> Fallback

\* source is "" (or missing), a non-empty string, or a JSON value that is
\* truthy and no string; agents is os.path.exists('src/agents/kestra-agent.js')
diagnose ==
    \E body \in BodyKinds, source \in {"", "text", "nonstr"}, demo \in BOOLEAN,
       agents \in BOOLEAN :
      LET real == body = "object" /\ ~demo /\ source # "" /\ agents
          ran == real /\ time_defined /\ source = "text"
      IN
      \E outcome \in IF ran THEN Outcomes ELSE {"text"},
         t \in IF real /\ time_defined THEN Times ELSE {1} :
            /\ body # "object" => source = "" /\ demo /\ agents
            /\ body = "object" /\ source = "" /\ ~demo => agents
            /\ IF body # "object"
               THEN /\ Handled(Request("diagnose", EndpointError, FALSE, FALSE, "none", 0),
                               stats, FALSE)
                    /\ temp_files' = temp_files
               ELSE IF source = "" /\ ~demo
               THEN /\ Handled(Request("diagnose",
                                       Json(400, "false",
                                            "Source (log or error message) is required",
                                            "validation"),
                                       FALSE, FALSE, "none", 0),
                               stats, FALSE)
                    /\ temp_files' = temp_files
               ELSE IF ~time_defined
               THEN \* time.time() raises NameError: in the demo payload (60), or
                    \* at line 76 and again in the fallback payload (134)
                    /\ Handled(Request("diagnose", EndpointError, TRUE, real, "none", 0),
                               stats, FALSE)
                    /\ temp_files' = temp_files
               ELSE IF ~real
               THEN /\ Handled(Request("diagnose", Json(200, "true", "", "demo"),
                                       TRUE, FALSE, "none", 0),
                               stats, FALSE)
                    /\ temp_files' = temp_files
               ELSE /\ Handled(Request("diagnose", RealDiagnosis(source, outcome),
                                       TRUE, TRUE, IF ran THEN outcome ELSE "none", t),
                               stats, FALSE)
                    /\ temp_files' = TempFilesAfter(temp_files, t, source, outcome)
            /\ UNCHANGED <<stats, stats_file, time_defined, merged, tracking, unsaved>>
            /\ UNCHANGED thread_vars

\* ---------------------------------------------------- one request at a time
Next ==
    \/ get_stats
    \/ update_stats
    \/ reset_stats
    \/ status
    \/ autonomous
    \/ diagnose

Spec == Init /\ [][Next]_vars

\* the endpoints that read or write `stats`; diagnose does neither
NextStats ==
    \/ get_stats
    \/ update_stats
    \/ reset_stats
    \/ status
    \/ autonomous

\* started as `python app.py`, so that line 323 has bound `time`
InitStats ==
    /\ Init
    /\ time_defined

SpecStats == InitStats /\ [][NextStats]_vars

\* the diagnosis endpoint alone, in either way of starting the server
NextDiagnose == diagnose

SpecDiagnose == Init /\ [][NextDiagnose]_vars

\* ------------------------------------------------------ the threaded server
\* app.run(debug=True, port=3000) serves each request on its own thread, and no
\* handler takes a lock.  `stats[key] += v` is a load of stats[key], an add and
\* a store into the dict that was loaded from, and another thread can run
\* between the load and the store.  Each thread below handles one request whose
\* body is valid: a merge of 1 into some counters, an autonomous request (whose
\* command, in real mode, returns 0 with a JSON object, or which runs in demo
\* mode), or a reset.

One == [num |-> TRUE, v |-> 1]

\* the keys an autonomous request adds 1 to (169, 210)
AutonomousData(real_ok) ==
    IF real_ok THEN [k \in {"tasks_executed", "issues_resolved"} |-> One]
    ELSE [k \in {"tasks_executed"} |-> One]

ThreadRequests ==
    {[op |-> "update", data |-> [k \in ks |-> One], real_ok |-> FALSE] :
        ks \in (SUBSET Counters) \ {{}}}
    \cup {[op |-> "autonomous", data |-> AutonomousData(b), real_ok |-> b] : b \in BOOLEAN}
    \cup {[op |-> "reset", data |-> << >>, real_ok |-> FALSE]}

InitThreads ==
    /\ stats_file = [kind |-> "absent", rec |-> ZeroStats]
    /\ stats = ZeroStats
    /\ temp_files = {}
    /\ time_defined = TRUE
    /\ last = NoRequest
    /\ pre = stats
    /\ merged = ZeroMerged
    /\ tracking = TRUE
    /\ mutated = FALSE
    /\ unsaved = 0
    /\ req \in [Threads -> ThreadRequests]
    /\ pc = [t \in Threads |-> IF req[t].op = "reset" THEN "rebind" ELSE "load"]
    /\ idx = [t \in Threads |-> 1]
    /\ tmp = [t \in Threads |-> 0]
    /\ ref = [t \in Threads |-> 0]
    /\ gen = 0

\* the indices, from i on, of the keys the request adds to
KeysLeft(t, i) == {j \in i .. Len(Keys) : Keys[j] \in DOMAIN req[t].data}

Min(S) == CHOOSE x \in S : \A y \in S : x <= y

\* the left half of `stats[key] += ...`: read stats[key] for the next key of
\* the request; update_stats leaves its loop when there is none
ThreadLoad(t) ==
    /\ pc[t] = "load"
    /\ IF KeysLeft(t, idx[t]) = {}
       THEN /\ pc' = [pc EXCEPT ![t] = "recalc"]
            /\ UNCHANGED <<idx, tmp, ref>>
       ELSE LET j == Min(KeysLeft(t, idx[t]))
            IN  /\ idx' = [idx EXCEPT ![t] = j]
                /\ tmp' = [tmp EXCEPT ![t] = stats[Keys[j]]]
                /\ ref' = [ref EXCEPT ![t] = gen]
                /\ pc' = [pc EXCEPT ![t] = "store"]
    /\ UNCHANGED <<stats, stats_file, temp_files, time_defined, last, pre, merged,
                   tracking, mutated, unsaved, req, gen>>

\* the right half: store the sum into the dict the value was read from, which
\* is no longer `stats` if a reset has rebound the name since
ThreadStore(t) ==
    /\ pc[t] = "store"
    /\ stats' = IF ref[t] = gen
                THEN [stats EXCEPT ![Keys[idx[t]]] = tmp[t] + req[t].data[Keys[idx[t]]].v]
                ELSE stats
    /\ idx' = [idx EXCEPT ![t] = @ + 1]
    /\ pc' = [pc EXCEPT ![t] = IF req[t].op = "update" THEN "load" ELSE "save"]
    /\ UNCHANGED <<stats_file, temp_files, time_defined, last, pre, merged,
                   tracking, mutated, unsaved, req, tmp, ref, gen>>

\* lines 269-270 of update_stats
ThreadRecalc(t) ==
    /\ pc[t] = "recalc"
    /\ stats' = Recalc(stats)
    /\ pc' = [pc EXCEPT ![t] = "save"]
    /\ UNCHANGED <<stats_file, temp_files, time_defined, last, pre, merged,
                   tracking, mutated, unsaved, req, idx, tmp, ref, gen>>

\* save_stats(); an autonomous request in real mode goes on to line 210
ThreadSave(t) ==
    /\ pc[t] = "save"
    /\ stats_file' = save_stats(stats)
    /\ pc' = [pc EXCEPT ![t] =
                 IF req[t].op = "autonomous" /\ KeysLeft(t, idx[t]) # {}
                 THEN "load" ELSE "done"]
    /\ UNCHANGED <<stats, temp_files, time_defined, last, pre, merged,
                   tracking, mutated, unsaved, req, idx, tmp, ref, gen>>

\* reset_stats binds `stats` to a new dict (284-289)
ThreadRebind(t) ==
    /\ pc[t] = "rebind"
    /\ stats' = ZeroStats
    /\ gen' = gen + 1
    /\ pc' = [pc EXCEPT ![t] = "save"]
    /\ UNCHANGED <<stats_file, temp_files, time_defined, last, pre, merged,
                   tracking, mutated, unsaved, req, idx, tmp, ref>>

NextThreads ==
    \E t \in Threads :
        \/ ThreadLoad(t)
        \/ ThreadStore(t)
        \/ ThreadRecalc(t)
        \/ ThreadSave(t)
        \/ ThreadRebind(t)

SpecThreads == InitThreads /\ [][NextThreads]_vars

\* what the handler of request r does to the record s when it runs alone
Alone(r, s) ==
    CASE r.op = "update" -> Recalc(MergeFrom(1, s, r.data).s)
      [] r.op = "autonomous" ->
             AutonomousStats(s, ~r.real_ok, IF r.real_ok THEN "json_object" ELSE "text")
      [] OTHER -> ZeroStats

\* the records the requests of the threads in T can leave behind when they are
\* handled one after another, in any order, starting from s
RECURSIVE InSomeOrder(_, _)
InSomeOrder(T, s) ==
    IF T = {} THEN {s}
    ELSE UNION {InSomeOrder(T \ {t}, Alone(req[t], s)) : t \in T}

AllDone == \A t \in Threads : pc[t] = "done"

\* ------------------------------------------------------------------ claims
\* the StatsRecord invariant of the data model, on a record s
RateConsistent(s) ==
    IF s.tasks_executed > 0
    THEN s.success_rate = Ratio(s.issues_resolved, s.tasks_executed)
    ELSE s.success_rate = RateZero

UpdateReturned == last.op = "update" /\ last.resp.status = 200

\* C1: as long as only stats/update and reset have changed the record since it
\* was all zero, each counter is the sum of the deltas merged into it since the
\* last reset (a merge that raises has merged the keys before the one it
\* raised on), and the three counters are zero right after a reset.
C1_CountersAreSums ==
    /\ tracking => \A k \in Counters : stats[k] = merged[k]
    /\ last.op = "reset" => \A k \in Counters : stats[k] = 0

\* two merges since the all-zero record have each added to tasks_executed
C1_Witness ==
    /\ tracking
    /\ UpdateReturned
    /\ pre.tasks_executed = 1
    /\ stats.tasks_executed = 2
    /\ merged.tasks_executed = 2

\* C2: after a stats/update that returned, success_rate is
\* issues_resolved / tasks_executed * 100 of the merged counters when
\* tasks_executed > 0, and exactly 0 when tasks_executed is 0.
C2_RateAfterMerge == UpdateReturned => RateConsistent(stats)

\* C3: no request breaks the StatsRecord invariant; stated for the case the
\* claim singles out: the invariant held when an autonomous request arrived
\* and holds when it has returned.
C3_RateInvariantAfterAutonomous ==
    (last.op = "autonomous" /\ RateConsistent(pre)) => RateConsistent(stats)

\* C4: the temp file a real-mode diagnose request created is gone when the
\* request has returned.
C4_TempFileRemoved ==
    (last.op = "diagnose" /\ last.temp # 0) => last.temp \notin temp_files

\* C5: a request whose external command timed out is answered with the
\* ExternalToolTimeout error: success false, a 5xx status, the fixed message.
C5_TimeoutIsAnError ==
    last.outcome = "timeout" =>
        /\ last.resp.success = "false"
        /\ last.resp.status >= 500
        /\ last.resp.body = "timeout"

\* C7: a real-mode diagnose request that invoked the analyzer has raised
\* tasks_executed and decisions_made.
C7_DiagnoseCounts ==
    (last.op = "diagnose" /\ last.real /\ last.outcome # "none") =>
        /\ stats.tasks_executed > pre.tasks_executed
        /\ stats.decisions_made > pre.decisions_made

\* C8: every request is answered by its handler with a JSON body, and an error
\* with the envelope {error, success: false}; no handler raises.
C8_ErrorsAreEnvelopes ==
    last.op # "none" =>
        /\ last.resp.json
        /\ last.resp.status >= 400 =>
               (last.resp.success = "false" /\ last.resp.error # "")

\* C9: once a mutating request has been handled, web/stats.json holds the
\* in-memory record, field for field.
C9_FileHoldsRecord ==
    mutated => (stats_file.kind = "json" /\ stats_file.rec = stats)

\* C10: an autonomous request adds exactly 1 to tasks_executed if it passed
\* validation and changes no counter if it was refused with 400; it adds
\* exactly 1 to issues_resolved if, in real mode, the command returned 0 with
\* stdout that parses as JSON, and 0 otherwise.
C10_AutonomousCounters ==
    last.op = "autonomous" =>
        /\ last.valid => stats.tasks_executed = pre.tasks_executed + 1
        /\ last.resp.status = 400 => \A k \in Counters : stats[k] = pre[k]
        /\ stats.issues_resolved =
               pre.issues_resolved +
                   (IF last.real /\ last.outcome \in {"json_object", "json_other"}
                    THEN 1 ELSE 0)

\* a real-mode request whose command timed out has counted the task and no issue
C10_Witness ==
    /\ last.op = "autonomous"
    /\ last.real
    /\ last.outcome = "timeout"
    /\ stats.tasks_executed = pre.tasks_executed + 1
    /\ stats.issues_resolved = pre.issues_resolved

\* C6: when the requests of all threads have completed, each counter has the
\* value that handling them one after another, in some order, produces.
C6_NoLostUpdate ==
    AllDone =>
        \E s \in InSomeOrder(Threads, ZeroStats) : \A k \in Counters : stats[k] = s[k]

====
